---------------------------- MODULE Spec2Model ----------------------------
(***************************************************************************)
(* A model of the tree-walking evaluator of cpplox                         *)
(* (src/project/src/interpreter.cpp).                                      *)
(*                                                                         *)
(* The interpreter is a visitor whose handlers call each other             *)
(* recursively; the model makes the C++ call stack explicit (stack), one   *)
(* activation record per running handler, and has one action per handler.  *)
(* Environments and callables live behind shared_ptr: they are modelled as *)
(* two heaps (envs, functions) addressed by index, index 0 being nullptr.  *)
(***************************************************************************)
EXTENDS Integers, Sequences, FiniteSets, TLC

VARIABLES
    environment_,   \* Interpreter::environment_   (index into envs)
    globals_,       \* Interpreter::globals_       (index into envs)
    result_,        \* Interpreter::result_        (a Literal)
    returning_,     \* Interpreter::returning_
    envs,           \* every Environment ever made by make_shared<Environment>
    functions,      \* every Callable ever made by make_shared<...>
    stack,          \* the C++ call stack of visit()/call() activations
    error,          \* the Interpreter_error in flight, if any
    out,            \* what has been written to std::cout, one Literal per line
    errs,           \* the errors the driver has caught so far
    prog,           \* the statement list handed to the interpreter
    next,           \* the driver's position in prog
    order,          \* operand order of an overloaded `a = b` in this build
    source          \* which program text prog was parsed from

vars == <<environment_, globals_, result_, returning_, envs, functions, stack,
          error, out, errs, prog, next, order, source>>

---------------------------------------------------------------------------
(* Bounds *)

MaxDepth == 3      \* deepest block nesting of the generated scope chains
MaxClock == 1      \* the clock() native returns a time in 0..MaxClock

---------------------------------------------------------------------------
(* Literal: boost::variant over nil, bool, double, string, Callable.       *)
(* One record shape for every alternative; k is the discriminator.         *)
(* A double is the fraction n/d in lowest terms with d > 0; d = 0 stands   *)
(* for the values that are no number: n = 1 is +inf, n = -1 is -inf and    *)
(* n = 0 is NaN.  The sign of a zero is not kept, and the fractions are    *)
(* exact (the programs below stay with values a double holds exactly, or   *)
(* whose rounding does not show in their comparisons).                     *)

Nil      == [k |-> "nil",  b |-> FALSE, n |-> 0, d |-> 1, s |-> <<>>, f |-> 0]
Bool(x)  == [k |-> "bool", b |-> x,     n |-> 0, d |-> 1, s |-> <<>>, f |-> 0]
Num(x)   == [k |-> "num",  b |-> FALSE, n |-> x, d |-> 1, s |-> <<>>, f |-> 0]
Str(x)   == [k |-> "str",  b |-> FALSE, n |-> 0, d |-> 1, s |-> x,    f |-> 0]
Fn(x)    == [k |-> "fn",   b |-> FALSE, n |-> 0, d |-> 1, s |-> <<>>, f |-> x]

\* Is_truthy_visitor: false and nil are falsey, everything else is truthy
Is_truthy_visitor(value) ==
    IF value.k = "bool" THEN value.b
    ELSE IF value.k = "nil" THEN FALSE
    ELSE TRUE

---------------------------------------------------------------------------
(* The syntax tree the parser hands over.  None stands for a null          *)
(* unique_ptr (no initializer, no else branch, no return value).           *)

None                      == [t |-> "None"]
Literal_expr(v)           == [t |-> "Literal_expr", value |-> v]
Grouping_expr(e)          == [t |-> "Grouping_expr", expr |-> e]
Unary_expr(o, r)          == [t |-> "Unary_expr", op |-> o, right |-> r]
Binary_expr(l, o, r)      == [t |-> "Binary_expr", left |-> l, op |-> o, right |-> r]
Var_expr(n)               == [t |-> "Var_expr", name |-> n]
Assign_expr(n, e)         == [t |-> "Assign_expr", name |-> n, value |-> e]
Logical_expr(l, o, r)     == [t |-> "Logical_expr", left |-> l, op |-> o, right |-> r]
Call_expr(c, a)           == [t |-> "Call_expr", callee |-> c, arguments |-> a]
Expr_stmt(e)              == [t |-> "Expr_stmt", expr |-> e]
Print_stmt(e)             == [t |-> "Print_stmt", expr |-> e]
Var_stmt(n, e)            == [t |-> "Var_stmt", name |-> n, initializer |-> e]
Block_stmt(ss)            == [t |-> "Block_stmt", statements |-> ss]
If_stmt(c, th, el)        == [t |-> "If_stmt", condition |-> c, then_branch |-> th, else_branch |-> el]
While_stmt(c, b)          == [t |-> "While_stmt", condition |-> c, body |-> b]
Function_stmt(n, ps, b)   == [t |-> "Function_stmt", name |-> n, parameters |-> ps, body |-> b]
Return_stmt(e)            == [t |-> "Return_stmt", value |-> e]

---------------------------------------------------------------------------
(* Interpreter_error: the message text with its parameters.                *)

NoError == [what |-> "", name |-> "", expected |-> 0, got |-> 0]

\* "Undefined variable '" + expr.name.lexeme + "'."
UndefinedVariable(var_name) ==
    [what |-> "Undefined variable '<name>'.", name |-> var_name, expected |-> 0, got |-> 0]

\* "Can only call functions and classes."
NotCallable ==
    [what |-> "Can only call functions and classes.", name |-> "", expected |-> 0, got |-> 0]

\* "Expected " + to_string(arity) + " arguments but got " + to_string(size) + "."
ArityMismatch(n, m) ==
    [what |-> "Expected <n> arguments but got <m>.", name |-> "", expected |-> n, got |-> m]

\* "Operands must be numbers."
OperandsMustBeNumbers ==
    [what |-> "Operands must be numbers.", name |-> "", expected |-> 0, got |-> 0]

\* "Operands must be two numbers or two strings."
OperandsMustBeTwo ==
    [what |-> "Operands must be two numbers or two strings.", name |-> "",
     expected |-> 0, got |-> 0]

\* "Unreachable."
Unreachable ==
    [what |-> "Unreachable.", name |-> "", expected |-> 0, got |-> 0]

---------------------------------------------------------------------------
(* The arithmetic of double, on fractions.                                 *)

Abs(x) == IF x < 0 THEN -x ELSE x

Sign(x) == IF x < 0 THEN -1 ELSE IF x = 0 THEN 0 ELSE 1

RECURSIVE Gcd(_, _)
Gcd(a, b) == IF b = 0 THEN a ELSE Gcd(b, a % b)

\* The double p/q; p/0 is an infinity of the sign of p, 0/0 is NaN
Double(p, q) ==
    IF q = 0 THEN [Num(Sign(p)) EXCEPT !.d = 0]
    ELSE LET g == Gcd(Abs(p), Abs(q))
         IN  [Num((Sign(q) * p) \div g) EXCEPT !.d = Abs(q) \div g]

IsNaN(x) == x.d = 0 /\ x.n = 0

IsInf(x) == x.d = 0 /\ x.n # 0

\* - x
Negate(x) == [x EXCEPT !.n = -x.n]

\* lhs + rhs
Add(lhs, rhs) ==
    IF IsNaN(lhs) \/ IsNaN(rhs) THEN Double(0, 0)
    ELSE IF IsInf(lhs) /\ IsInf(rhs)
         THEN IF lhs.n = rhs.n THEN lhs ELSE Double(0, 0)
    ELSE IF IsInf(lhs) THEN lhs
    ELSE IF IsInf(rhs) THEN rhs
    ELSE Double(lhs.n * rhs.d + rhs.n * lhs.d, lhs.d * rhs.d)

\* lhs - rhs
Subtract(lhs, rhs) == Add(lhs, Negate(rhs))

\* lhs * rhs
Multiply(lhs, rhs) == Double(lhs.n * rhs.n, lhs.d * rhs.d)

\* 1 / x
Reciprocal(x) ==
    IF x.d # 0 /\ x.n = 0 THEN Double(1, 0)
    ELSE Double(Sign(x.n) * x.d, Abs(x.n))

\* lhs / rhs
Divide(lhs, rhs) == Multiply(lhs, Reciprocal(rhs))

\* lhs < rhs
Less(lhs, rhs) ==
    IF IsNaN(lhs) \/ IsNaN(rhs) THEN FALSE
    ELSE IF lhs.d = 0 /\ rhs.d = 0 THEN lhs.n < rhs.n
    ELSE IF lhs.d = 0 THEN lhs.n < 0
    ELSE IF rhs.d = 0 THEN rhs.n > 0
    ELSE lhs.n * rhs.d < rhs.n * lhs.d

\* lhs == rhs on double
Same(lhs, rhs) == ~IsNaN(lhs) /\ ~IsNaN(rhs) /\ lhs = rhs

---------------------------------------------------------------------------
(* Environment: values_ is a vector of (name, Literal) pairs, enclosed_ a  *)
(* shared_ptr to the parent (0 when null).                                 *)
(*                                                                         *)
(* A vector iterator is an address.  It is modelled as the pair of the     *)
(* environment whose vector it points into and a position in that vector;  *)
(* end() is the position one past the last entry.  Distinct live vectors   *)
(* occupy disjoint allocations, so an iterator to an element of one vector *)
(* never compares equal to end() of another vector: iterators compare by   *)
(* (env, pos).                                                             *)

Environment(enclosed) == [values_ |-> <<>>, enclosed_ |-> enclosed]

Iter(e, p) == [env |-> e, pos |-> p]

\* Environment::end
end(E, this) == Iter(this, Len(E[this].values_) + 1)

\* std::find_if over values_ with value.first == var_name: the first match,
\* or Len + 1 (end) when there is none
RECURSIVE find_if(_, _, _)
find_if(values, var_name, from) ==
    IF from > Len(values) THEN Len(values) + 1
    ELSE IF values[from].first = var_name THEN from
    ELSE find_if(values, var_name, from + 1)

\* find_in_chain as it would be if the enclosing environment searched only
\* its own entries instead of the rest of the chain
find_in_chain_one_level(E, this, var_name) ==
    LET found_own == Iter(this, find_if(E[this].values_, var_name, 1))
    IN  IF found_own # end(E, this) THEN found_own
        ELSE IF E[this].enclosed_ # 0
             THEN LET found_enclosed ==
                          Iter(E[this].enclosed_,
                               find_if(E[E[this].enclosed_].values_, var_name, 1))
                  IN  IF found_enclosed # end(E, E[this].enclosed_)
                      THEN found_enclosed
                      ELSE end(E, this)
             ELSE end(E, this)

\* Environment::find_in_chain
RECURSIVE find_in_chain(_, _, _)
find_in_chain(E, this, var_name) ==
    LET found_own == Iter(this, find_if(E[this].values_, var_name, 1))
    IN  IF found_own # end(E, this) THEN found_own
        ELSE IF E[this].enclosed_ # 0
             THEN LET found_enclosed == find_in_chain(E, E[this].enclosed_, var_name)
                  IN  IF found_enclosed # end(E, E[this].enclosed_)
                      THEN found_enclosed
                      ELSE end(E, this)
             ELSE end(E, this)

\* find_own_or_make as it would be if it looked the name up with
\* find_in_chain: an entry of an enclosing environment is taken for its own
find_own_or_make_in_chain(E, this, var_name) ==
    LET found == find_in_chain(E, this, var_name)
    IN  IF found # end(E, this)
        THEN [heap |-> E, ref |-> found]
        ELSE [heap |-> [E EXCEPT ![this].values_ =
                            Append(@, [first |-> var_name, second |-> Nil])],
              ref  |-> Iter(this, Len(E[this].values_) + 1)]

\* find_own_or_make as it would be if it never looked for an entry of its
\* own and always made a new one
find_own_or_make_always(E, this, var_name) ==
    [heap |-> [E EXCEPT ![this].values_ =
                  Append(@, [first |-> var_name, second |-> Nil])],
     ref  |-> Iter(this, Len(E[this].values_) + 1)]

\* Environment::find_own_or_make: the heap after the call and the entry the
\* returned Literal& refers to
find_own_or_make(E, this, var_name) ==
    LET found_own == Iter(this, find_if(E[this].values_, var_name, 1))
    IN  IF found_own # end(E, this)
        THEN [heap |-> E, ref |-> found_own]
        ELSE [heap |-> [E EXCEPT ![this].values_ =
                            Append(@, [first |-> var_name, second |-> Nil])],
              ref  |-> Iter(this, Len(E[this].values_) + 1)]

\* found->second
Second(E, it) == E[it.env].values_[it.pos].second

\* found->second = value  (also `Literal& = value`)
Store(E, it, value) == [E EXCEPT ![it.env].values_[it.pos].second = value]

\* environment->find_own_or_make(name) = value
Define(E, this, var_name, value) ==
    LET made == find_own_or_make(E, this, var_name)
    IN  Store(made.heap, made.ref, value)

---------------------------------------------------------------------------
(* Callable: the native clock, or Interpreter::Function (a declaration and *)
(* the environment it closes over).                                        *)

\* struct Clock_callable
Clock_callable ==
    [native |-> TRUE, declaration_ |-> Function_stmt("clock", <<>>, <<>>), enclosed_ |-> 0]

\* Function as it would be if every function closed over the global
\* environment instead of the one it is declared in
Function_global(declaration, enclosed) ==
    [native |-> FALSE, declaration_ |-> declaration, enclosed_ |-> 1]

\* Interpreter::Function::Function
Function(declaration, enclosed) ==
    [native |-> FALSE, declaration_ |-> declaration, enclosed_ |-> enclosed]

\* Callable::arity
arity(F, callable) ==
    IF F[callable].native THEN 0 ELSE Len(F[callable].declaration_.parameters)

\* CallEnvironment as it would be under dynamic scoping: the new frame
\* hangs off the caller's environment
CallEnvironment_dynamic(F, callable, caller_environment) ==
    Environment(caller_environment)

\* The environment Function::call runs the body in:
\* make_shared<Environment>(enclosed_)
CallEnvironment(F, callable, caller_environment) ==
    Environment(F[callable].enclosed_)

\* BindParameters as it would be if a function had one frame for all its
\* activations: the parameters are bound in the environment the function
\* closes over
RECURSIVE BindParameters_shared(_, _, _, _, _)
BindParameters_shared(E, this, parameters, arguments, i) ==
    IF i > Len(parameters) THEN E
    ELSE BindParameters_shared(Define(E, E[this].enclosed_, parameters[i], arguments[i]),
                               this, parameters, arguments, i + 1)

\* The loop of Function::call that binds parameter i to argument i
RECURSIVE BindParameters(_, _, _, _, _)
BindParameters(E, this, parameters, arguments, i) ==
    IF i > Len(parameters) THEN E
    ELSE BindParameters(Define(E, this, parameters[i], arguments[i]),
                        this, parameters, arguments, i + 1)

---------------------------------------------------------------------------
(* The call stack.  An activation record holds the node being visited, the *)
(* position inside the handler (pc) and the handler's local variables:     *)
(*   i         loop index of a for loop over statements / arguments        *)
(*   enclosed  Block_stmt's `enclosed`, Function::call's                   *)
(*             `caller_environment`                                        *)
(*   found     the iterator / reference held across a sub-evaluation       *)
(*   tmp       left_result                                                 *)
(*   callable, args, ret   Call_expr's callable, arguments_results and the *)
(*             Literal that call() returned                                *)
(* and, for stating properties only (never read by an action's guard or    *)
(* effect on program state):                                               *)
(*   env0      the active environment when the activation began            *)
(*   own       the environment the activation created                      *)
(*   returned  a return statement has completed inside this call           *)
(*   retval    the value that return statement computed                    *)
(*   snap      the environments as they were when a block was entered, or  *)
(*             when a call expression handed over to call()                *)

NoIter == Iter(0, 0)

Frame(n, e) ==
    [node |-> n, h |-> n.t, pc |-> "start", i |-> 0, enclosed |-> 0,
     found |-> NoIter, tmp |-> Nil, callable |-> 0, args |-> <<>>, ret |-> Nil,
     env0 |-> e, own |-> 0, returned |-> FALSE, retval |-> Nil, snap |-> <<>>]

\* The activation of callable->call(*this, arguments_results)
CallFrame(F, c, arguments, e) ==
    [Frame(F[c].declaration_, e) EXCEPT
        !.h = IF F[c].native THEN "Clock_call" ELSE "Function_call",
        !.callable = c, !.args = arguments]

top == stack[Len(stack)]

Running == stack # <<>> /\ error = NoError

At(h, pc) == Running /\ top.h = h /\ top.pc = pc

\* The handler on top returns to its caller
Pop(stk) == SubSeq(stk, 1, Len(stk) - 1)

\* The handler on top calls accept() on a child (or call() on a callable) and
\* will resume at pc
Accept(stk, pc, child) == Append([stk EXCEPT ![Len(stk)].pc = pc], child)

\* call() returns value to the Call_expr activation below it (which, for
\* the properties, also learns whether a return statement produced it)
Returned(stk, value) ==
    [Pop(stk) EXCEPT ![Len(stk) - 1].ret = value,
                     ![Len(stk) - 1].returned = stk[Len(stk)].returned,
                     ![Len(stk) - 1].retval = stk[Len(stk)].retval]

\* The innermost Function::call activation on the stack, 0 when there is none
RECURSIVE NearestCall(_, _)
NearestCall(stk, k) ==
    IF k = 0 THEN 0
    ELSE IF stk[k].h = "Function_call" THEN k
    ELSE NearestCall(stk, k - 1)

fixed == <<globals_, prog, order, source>>

\* throw Interpreter_error{...}
Throw(e) ==
    /\ error' = e
    /\ UNCHANGED <<environment_, result_, returning_, envs, functions, stack,
                   out, errs, next, fixed>>

\* The handler changes nothing but the call stack
OnlyStack(stk) ==
    /\ stack' = stk
    /\ UNCHANGED <<environment_, result_, returning_, envs, functions, error,
                   out, errs, next, fixed>>

---------------------------------------------------------------------------
(* Expressions *)

\* Interpreter::visit(const Literal_expr&)
VisitLiteralExpr ==
    /\ At("Literal_expr", "start")
    /\ result_' = top.node.value
    /\ stack' = Pop(stack)
    /\ UNCHANGED <<environment_, returning_, envs, functions, error, out, errs,
                   next, fixed>>

\* Interpreter::visit(const Grouping_expr&)
VisitGroupingExpr ==
    \/ /\ At("Grouping_expr", "start")
       /\ OnlyStack(Accept(stack, "expr", Frame(top.node.expr, environment_)))
    \/ /\ At("Grouping_expr", "expr")
       /\ OnlyStack(Pop(stack))

\* What an operator leaves: the Literal for result_, or the error it throws
Value(v)  == [error |-> NoError, value |-> v]
Raise(e)  == [error |-> e, value |-> Nil]

\* get<double>(x.value) throws bad_get unless x holds a double
bad_get(x) == x.k # "num"

\* The switch of visit(const Unary_expr&) inside its try block; the
\* bad_get of get<double> is turned into "Operands must be numbers."
Unary(op, unary_result) ==
    CASE op = "minus" ->
            IF bad_get(unary_result) THEN Raise(OperandsMustBeNumbers)
            ELSE Value(Negate(unary_result))
      [] op = "bang" ->
            Value(Bool(~Is_truthy_visitor(unary_result)))
      [] OTHER -> Raise(Unreachable)

\* Interpreter::visit(const Unary_expr&)
VisitUnaryExpr ==
    \/ /\ At("Unary_expr", "start")
       /\ OnlyStack(Accept(stack, "right", Frame(top.node.right, environment_)))
    \/ /\ At("Unary_expr", "right")
       /\ LET unary_result == result_
              done == Unary(top.node.op, unary_result)
          IN  IF done.error # NoError
              THEN Throw(done.error)
              ELSE /\ result_' = done.value
                   /\ stack' = Pop(stack)
                   /\ UNCHANGED <<environment_, returning_, envs, functions,
                                  error, out, errs, next, fixed>>

\* Plus_visitor as it would be if a number and a string could be added
\* (the number being taken for an empty string)
Plus_visitor_lenient(lhs, rhs) ==
    IF lhs.k = "num" /\ rhs.k = "num" THEN Value(Add(lhs, rhs))
    ELSE IF lhs.k \in {"str", "num"} /\ rhs.k \in {"str", "num"}
         THEN Value(Str(lhs.s \o rhs.s))
    ELSE Raise(OperandsMustBeTwo)

\* struct Plus_visitor
Plus_visitor(lhs, rhs) ==
    IF lhs.k = "str" /\ rhs.k = "str" THEN Value(Str(lhs.s \o rhs.s))
    ELSE IF lhs.k = "num" /\ rhs.k = "num" THEN Value(Add(lhs, rhs))
    ELSE Raise(OperandsMustBeTwo)

\* Is_equal_visitor as it would be if values of different types were
\* compared by truthiness
Is_equal_visitor_truthy(lhs, rhs) ==
    IF lhs.k # rhs.k THEN Is_truthy_visitor(lhs) = Is_truthy_visitor(rhs)
    ELSE IF lhs.k = "num" THEN Same(lhs, rhs)
    ELSE lhs = rhs

\* struct Is_equal_visitor: different types compare false, same types use
\* the type's ==
Is_equal_visitor(lhs, rhs) ==
    IF lhs.k # rhs.k THEN FALSE
    ELSE CASE lhs.k = "nil"  -> TRUE
           [] lhs.k = "bool" -> lhs.b = rhs.b
           [] lhs.k = "num"  -> Same(lhs, rhs)
           [] lhs.k = "str"  -> lhs.s = rhs.s
           [] lhs.k = "fn"   -> lhs.f = rhs.f

\* The switch of visit(const Binary_expr&) inside its try block
Binary(op, left_result, right_result) ==
    LET bad == bad_get(left_result) \/ bad_get(right_result)
        Numbers(v) == IF bad THEN Raise(OperandsMustBeNumbers) ELSE Value(v)
    IN  CASE op = "greater" ->
               Numbers(Bool(Less(right_result, left_result)))
          [] op = "greater_equal" ->
               Numbers(Bool(Less(right_result, left_result)
                            \/ Same(left_result, right_result)))
          [] op = "less" ->
               Numbers(Bool(Less(left_result, right_result)))
          [] op = "less_equal" ->
               Numbers(Bool(Less(left_result, right_result)
                            \/ Same(left_result, right_result)))
          [] op = "bang_equal" ->
               Value(Bool(~Is_equal_visitor(left_result, right_result)))
          [] op = "equal_equal" ->
               Value(Bool(Is_equal_visitor(left_result, right_result)))
          [] op = "minus" ->
               Numbers(Subtract(left_result, right_result))
          [] op = "plus" ->
               Plus_visitor(left_result, right_result)
          [] op = "slash" ->
               Numbers(Divide(left_result, right_result))
          [] op = "star" ->
               Numbers(Multiply(left_result, right_result))
          [] OTHER -> Raise(Unreachable)

\* Interpreter::visit(const Binary_expr&): left, then right, then the operator
VisitBinaryExpr ==
    \/ /\ At("Binary_expr", "start")
       /\ OnlyStack(Accept(stack, "left", Frame(top.node.left, environment_)))
    \/ /\ At("Binary_expr", "left")
       /\ LET left_result == result_
          IN  OnlyStack(Accept([stack EXCEPT ![Len(stack)].tmp = left_result],
                               "right", Frame(top.node.right, environment_)))
    \/ /\ At("Binary_expr", "right")
       /\ LET left_result  == top.tmp
              right_result == result_
              done == Binary(top.node.op, left_result, right_result)
          IN  IF done.error # NoError
              THEN Throw(done.error)
              ELSE /\ result_' = done.value
                   /\ stack' = Pop(stack)
                   /\ UNCHANGED <<environment_, returning_, envs, functions,
                                  error, out, errs, next, fixed>>

\* Interpreter::visit(const Var_expr&)
VisitVarExpr ==
    /\ At("Var_expr", "start")
    /\ LET found == find_in_chain(envs, environment_, top.node.name)
       IN  IF found = end(envs, environment_)
           THEN Throw(UndefinedVariable(top.node.name))
           ELSE /\ result_' = Second(envs, found)
                /\ stack' = Pop(stack)
                /\ UNCHANGED <<environment_, returning_, envs, functions, error,
                               out, errs, next, fixed>>

\* Interpreter::visit(const Assign_expr&): the name is looked up on entry,
\* the value is evaluated next and stored through the iterator found before
VisitAssignExpr ==
    \/ /\ At("Assign_expr", "start")
       /\ LET found == find_in_chain(envs, environment_, top.node.name)
          IN  IF found = end(envs, environment_)
              THEN Throw(UndefinedVariable(top.node.name))
              ELSE OnlyStack(Accept([stack EXCEPT ![Len(stack)].found = found],
                                    "value", Frame(top.node.value, environment_)))
    \/ /\ At("Assign_expr", "value")
       /\ envs' = Store(envs, top.found, result_)
       /\ stack' = Pop(stack)
       /\ UNCHANGED <<environment_, result_, returning_, functions, error, out,
                      errs, next, fixed>>

\* ShortCircuits as it would be if only `or` could end early
ShortCircuits_or_only(op, left_result) ==
    op = "or" /\ Is_truthy_visitor(left_result)

\* The two tests of visit(const Logical_expr&) that end it without the
\* right operand
ShortCircuits(op, left_result) ==
    \/ op = "or"  /\ Is_truthy_visitor(left_result)
    \/ op = "and" /\ ~Is_truthy_visitor(left_result)

\* Interpreter::visit(const Logical_expr&)
VisitLogicalExpr ==
    \/ /\ At("Logical_expr", "start")
       /\ OnlyStack(Accept(stack, "left", Frame(top.node.left, environment_)))
    \/ /\ At("Logical_expr", "left")
       /\ LET left_result == result_
          IN  IF ShortCircuits(top.node.op, left_result)
              THEN /\ result_' = left_result
                   /\ stack' = Pop(stack)
                   /\ UNCHANGED <<environment_, returning_, envs, functions,
                                  error, out, errs, next, fixed>>
              ELSE OnlyStack(Accept([stack EXCEPT ![Len(stack)].tmp = left_result],
                                    "right", Frame(top.node.right, environment_)))
    \/ /\ At("Logical_expr", "right")
       /\ OnlyStack(Pop(stack))

\* result_ = callable->call(*this, arguments_results): enter call()
Invoke(callable, arguments_results) ==
    OnlyStack(Accept([stack EXCEPT ![Len(stack)].callable = callable,
                                   ![Len(stack)].args = arguments_results,
                                   ![Len(stack)].snap = envs],
                     "call",
                     CallFrame(functions, callable, arguments_results, environment_)))

\* Interpreter::visit(const Call_expr&): callee, then the callable and arity
\* tests, then the arguments in order, then the call
VisitCallExpr ==
    \/ /\ At("Call_expr", "start")
       /\ OnlyStack(Accept(stack, "callee", Frame(top.node.callee, environment_)))
    \/ /\ At("Call_expr", "callee")
       /\ LET callee_result == result_
              callable      == callee_result.f
              size          == Len(top.node.arguments)
          IN  IF callee_result.k # "fn"
              THEN Throw(NotCallable)
              ELSE IF size # arity(functions, callable)
              THEN Throw(ArityMismatch(arity(functions, callable), size))
              ELSE IF size = 0
              THEN Invoke(callable, <<>>)
              ELSE OnlyStack(Accept([stack EXCEPT ![Len(stack)].callable = callable,
                                                  ![Len(stack)].i = 1],
                                    "argument",
                                    Frame(top.node.arguments[1], environment_)))
    \/ /\ At("Call_expr", "argument")
       /\ LET arguments_results == Append(top.args, result_)
          IN  IF top.i < Len(top.node.arguments)
              THEN OnlyStack(Accept([stack EXCEPT ![Len(stack)].args = arguments_results,
                                                  ![Len(stack)].i = top.i + 1],
                                    "argument",
                                    Frame(top.node.arguments[top.i + 1], environment_)))
              ELSE Invoke(top.callable, arguments_results)
    \/ /\ At("Call_expr", "call")
       /\ result_' = top.ret
       /\ stack' = Pop(stack)
       /\ UNCHANGED <<environment_, returning_, envs, functions, error, out,
                      errs, next, fixed>>

\* Clock_callable::call
ClockCall ==
    /\ At("Clock_call", "start")
    /\ \E now \in 0..MaxClock : stack' = Returned(stack, Num(now))
    /\ UNCHANGED <<environment_, result_, returning_, envs, functions, error,
                   out, errs, next, fixed>>

\* Interpreter::Function::call.  `return move(interpreter.result_)` leaves
\* result_ moved-from; the caller (visit(const Call_expr&)) assigns the
\* returned Literal to result_ before anything reads it.
FunctionCall ==
    \/ /\ At("Function_call", "start")
       /\ LET caller_environment == environment_
              fresh    == Len(envs) + 1
              made     == Append(envs, CallEnvironment(functions, top.callable,
                                                       caller_environment))
              body     == top.node.body
              entered  == [stack EXCEPT ![Len(stack)].enclosed = caller_environment,
                                        ![Len(stack)].own = fresh,
                                        ![Len(stack)].i = 1]
          IN  /\ envs' = BindParameters(made, fresh, top.node.parameters, top.args, 1)
              /\ IF Len(body) = 0
                 THEN /\ environment_' = caller_environment
                      /\ stack' = Returned(stack, Nil)
                 ELSE /\ environment_' = fresh
                      /\ stack' = Accept(entered, "statement", Frame(body[1], fresh))
              /\ UNCHANGED <<result_, returning_, functions, error, out, errs,
                             next, fixed>>
    \/ /\ At("Function_call", "statement")
       /\ LET body == top.node.body
          IN  IF returning_
              THEN /\ returning_' = FALSE
                   /\ environment_' = top.enclosed
                   /\ stack' = Returned(stack, result_)
              ELSE IF top.i < Len(body)
              THEN /\ stack' = Accept([stack EXCEPT ![Len(stack)].i = top.i + 1],
                                      "statement", Frame(body[top.i + 1], environment_))
                   /\ UNCHANGED <<environment_, returning_>>
              ELSE /\ environment_' = top.enclosed
                   /\ stack' = Returned(stack, Nil)
                   /\ UNCHANGED returning_
       /\ UNCHANGED <<result_, envs, functions, error, out, errs, next, fixed>>

---------------------------------------------------------------------------
(* Statements *)

\* Interpreter::visit(const Expr_stmt&)
VisitExprStmt ==
    \/ /\ At("Expr_stmt", "start")
       /\ OnlyStack(Accept(stack, "expr", Frame(top.node.expr, environment_)))
    \/ /\ At("Expr_stmt", "expr")
       /\ OnlyStack(Pop(stack))

\* Interpreter::visit(const If_stmt&)
VisitIfStmt ==
    \/ /\ At("If_stmt", "start")
       /\ OnlyStack(Accept(stack, "condition", Frame(top.node.condition, environment_)))
    \/ /\ At("If_stmt", "condition")
       /\ LET condition_result == result_
          IN  IF Is_truthy_visitor(condition_result)
              THEN OnlyStack(Accept(stack, "then", Frame(top.node.then_branch, environment_)))
              ELSE IF top.node.else_branch.t # "None"
              THEN OnlyStack(Accept(stack, "else", Frame(top.node.else_branch, environment_)))
              ELSE OnlyStack(Pop(stack))
    \/ /\ At("If_stmt", "then")
       /\ OnlyStack(Pop(stack))
    \/ /\ At("If_stmt", "else")
       /\ OnlyStack(Pop(stack))

\* WhileReturns as it would be if the loop did not look at the flag
WhileReturns_ignored(returning) == FALSE

\* The test after the body of visit(const While_stmt&): leave the loop
WhileReturns(returning) == returning

\* Interpreter::visit(const While_stmt&)
VisitWhileStmt ==
    \/ /\ At("While_stmt", "start")
       /\ OnlyStack(Accept(stack, "condition", Frame(top.node.condition, environment_)))
    \/ /\ At("While_stmt", "condition")
       /\ LET condition_result == result_
          IN  IF Is_truthy_visitor(condition_result)
              THEN OnlyStack(Accept(stack, "body", Frame(top.node.body, environment_)))
              ELSE OnlyStack(Pop(stack))
    \/ /\ At("While_stmt", "body")
       /\ IF WhileReturns(returning_)
          THEN OnlyStack(Pop(stack))
          ELSE OnlyStack(Accept(stack, "condition", Frame(top.node.condition, environment_)))

\* Interpreter::visit(const Print_stmt&)
VisitPrintStmt ==
    \/ /\ At("Print_stmt", "start")
       /\ OnlyStack(Accept(stack, "expr", Frame(top.node.expr, environment_)))
    \/ /\ At("Print_stmt", "expr")
       /\ out' = Append(out, result_)
       /\ stack' = Pop(stack)
       /\ UNCHANGED <<environment_, result_, returning_, envs, functions, error,
                      errs, next, fixed>>

\* Interpreter::visit(const Var_stmt&).  The statement is one assignment
\* through an overloaded operator=, `find_own_or_make(name) = initializer`;
\* which operand is evaluated first depends on the language standard the
\* build uses (order).
VisitVarStmt ==
    \/ /\ At("Var_stmt", "start")
       /\ top.node.initializer.t = "None"
       /\ envs' = Define(envs, environment_, top.node.name, Nil)
       /\ stack' = Pop(stack)
       /\ UNCHANGED <<environment_, result_, returning_, functions, error, out,
                      errs, next, fixed>>
    \/ /\ At("Var_stmt", "start")
       /\ top.node.initializer.t # "None"
       /\ order = "value_first"
       /\ OnlyStack(Accept(stack, "value", Frame(top.node.initializer, environment_)))
    \/ /\ At("Var_stmt", "value")
       /\ envs' = Define(envs, environment_, top.node.name, result_)
       /\ stack' = Pop(stack)
       /\ UNCHANGED <<environment_, result_, returning_, functions, error, out,
                      errs, next, fixed>>
    \/ /\ At("Var_stmt", "start")
       /\ top.node.initializer.t # "None"
       /\ order = "target_first"
       /\ LET made == find_own_or_make(envs, environment_, top.node.name)
          IN  /\ envs' = made.heap
              /\ stack' = Accept([stack EXCEPT ![Len(stack)].found = made.ref],
                                 "target", Frame(top.node.initializer, environment_))
       /\ UNCHANGED <<environment_, result_, returning_, functions, error, out,
                      errs, next, fixed>>
    \/ /\ At("Var_stmt", "target")
       /\ envs' = Store(envs, top.found, result_)
       /\ stack' = Pop(stack)
       /\ UNCHANGED <<environment_, result_, returning_, functions, error, out,
                      errs, next, fixed>>

\* BlockEnvironment as it would be if a block's environment were made
\* without a parent
BlockEnvironment_detached(enclosed) == Environment(0)

\* The environment visit(const Block_stmt&) makes active:
\* make_shared<Environment>(enclosed)
BlockEnvironment(enclosed) == Environment(enclosed)

\* Interpreter::visit(const Block_stmt&)
VisitBlockStmt ==
    \/ /\ At("Block_stmt", "start")
       /\ LET enclosed   == environment_
              fresh      == Len(envs) + 1
              statements == top.node.statements
              entered    == [stack EXCEPT ![Len(stack)].enclosed = enclosed,
                                          ![Len(stack)].own = fresh,
                                          ![Len(stack)].snap = envs,
                                          ![Len(stack)].i = 1]
          IN  /\ envs' = Append(envs, BlockEnvironment(enclosed))
              /\ IF Len(statements) = 0
                 THEN /\ environment_' = enclosed
                      /\ stack' = Pop(stack)
                 ELSE /\ environment_' = fresh
                      /\ stack' = Accept(entered, "statement", Frame(statements[1], fresh))
       /\ UNCHANGED <<result_, returning_, functions, error, out, errs, next, fixed>>
    \/ /\ At("Block_stmt", "statement")
       /\ LET statements == top.node.statements
          IN  IF returning_ \/ top.i = Len(statements)
              THEN /\ environment_' = top.enclosed
                   /\ stack' = Pop(stack)
              ELSE /\ stack' = Accept([stack EXCEPT ![Len(stack)].i = top.i + 1],
                                      "statement",
                                      Frame(statements[top.i + 1], environment_))
                   /\ UNCHANGED environment_
       /\ UNCHANGED <<result_, returning_, envs, functions, error, out, errs,
                      next, fixed>>

\* Closure as it would be if a Function kept a copy of the Environment, as
\* it is when the declaration is executed, instead of a pointer to it
Closure_by_value(E, environment) ==
    [heap |-> Append(E, E[environment]), enclosed |-> Len(E) + 1]

\* What make_shared<Function>(..., environment_) holds: a copy of the
\* shared_ptr, that is the environment itself; the heap is as it was
Closure(E, environment) == [heap |-> E, enclosed |-> environment]

\* Interpreter::visit(const Function_stmt&)
VisitFunctionStmt ==
    /\ At("Function_stmt", "start")
    /\ LET name == top.node.name
           made == Len(functions) + 1
           held == Closure(envs, environment_)
       IN  /\ functions' = Append(functions, Function(top.node, held.enclosed))
           /\ envs' = Define(held.heap, environment_, name, Fn(made))
    /\ stack' = Pop(stack)
    /\ UNCHANGED <<environment_, result_, returning_, error, out, errs, next, fixed>>

\* Property bookkeeping: note in the innermost call activation that a return
\* statement has completed, and with which value
MarkReturn(stk, value) ==
    LET k == NearestCall(stk, Len(stk))
    IN  IF k = 0 THEN stk
        ELSE [stk EXCEPT ![k].returned = TRUE, ![k].retval = value]

\* Interpreter::visit(const Return_stmt&)
VisitReturnStmt ==
    \/ /\ At("Return_stmt", "start")
       /\ top.node.value.t = "None"
       /\ result_' = Nil
       /\ returning_' = TRUE
       /\ stack' = MarkReturn(Pop(stack), Nil)
       /\ UNCHANGED <<environment_, envs, functions, error, out, errs, next, fixed>>
    \/ /\ At("Return_stmt", "start")
       /\ top.node.value.t # "None"
       /\ OnlyStack(Accept(stack, "value", Frame(top.node.value, environment_)))
    \/ /\ At("Return_stmt", "value")
       /\ returning_' = TRUE
       /\ stack' = MarkReturn(Pop(stack), result_)
       /\ UNCHANGED <<environment_, result_, envs, functions, error, out, errs,
                      next, fixed>>

---------------------------------------------------------------------------
(* Exceptions *)

\* Finally as it would be if the environment were put back by a plain
\* statement at the end of the handler, which an exception skips
Finally_skipped(frame, env) == env

\* What the gsl::finally of an activation leaves in environment_ when the
\* activation is left: Block_stmt and Function::call put back the
\* environment they saved, once they have installed theirs
Finally(frame, env) ==
    IF frame.h \in {"Block_stmt", "Function_call"} /\ frame.pc # "start"
    THEN frame.enclosed
    ELSE env

\* An Interpreter_error propagates out of the activation on top: its
\* locals are destroyed, which runs its finally
Unwind ==
    /\ stack # <<>>
    /\ error # NoError
    /\ environment_' = Finally(top, environment_)
    /\ stack' = Pop(stack)
    /\ UNCHANGED <<result_, returning_, envs, functions, error, out, errs, next, fixed>>

---------------------------------------------------------------------------
(* The driver, which is outside the evaluator: it hands the interpreter    *)
(* the statements of prog one after the other and catches an               *)
(* Interpreter_error at top level, then goes on with the next statement    *)
(* (as a prompt that reads statement after statement does).                *)

Interpret ==
    /\ stack = <<>>
    /\ error = NoError
    /\ next <= Len(prog)
    /\ stack' = <<Frame(prog[next], environment_)>>
    /\ next' = next + 1
    /\ UNCHANGED <<environment_, result_, returning_, envs, functions, error,
                   out, errs, fixed>>

Catch ==
    /\ stack = <<>>
    /\ error # NoError
    /\ errs' = Append(errs, error)
    /\ error' = NoError
    /\ UNCHANGED <<environment_, result_, returning_, envs, functions, stack,
                   out, next, fixed>>

\* Every statement has been run and nothing is in flight
Done == stack = <<>> /\ error = NoError /\ next > Len(prog)

---------------------------------------------------------------------------
(* The programs the interpreter is run on.  Each family is a program text  *)
(* with holes; Init fills the holes from small sets.                       *)

MaxNest  == 2      \* constructs nested around a return statement
MaxArity == 2      \* parameters / arguments of the arity programs

lit(n)   == Literal_expr(Num(n))
call0(f) == Call_expr(Var_expr(f), <<>>)
True     == Literal_expr(Bool(TRUE))

\* Scope chains of depth d.  Level 0 is the global scope; level l declares
\* `a` when l is in defs; each level holds the next one as a block, or as a
\* function declared and called on the spot; the innermost level reads or
\* assigns `a`; every level prints `a` on the way out.
RECURSIVE ChainLevel(_, _, _, _, _)
ChainLevel(l, d, defs, use, viaCall) ==
    (IF l \in defs THEN <<Var_stmt("a", lit(l))>> ELSE <<>>)
    \o (IF l < d
        THEN IF viaCall
             THEN <<Function_stmt("f", <<>>, ChainLevel(l + 1, d, defs, use, viaCall)),
                    Expr_stmt(call0("f"))>>
             ELSE <<Block_stmt(ChainLevel(l + 1, d, defs, use, viaCall))>>
        ELSE IF use = "read"
             THEN <<Print_stmt(Var_expr("a"))>>
             ELSE <<Expr_stmt(Assign_expr("a", lit(9)))>>)
    \o <<Print_stmt(Var_expr("a"))>>

ChainProgram(d, defs, use, viaCall) == ChainLevel(0, d, defs, use, viaCall)

\* A leaf statement wrapped in the constructs of shape, outermost first
RECURSIVE Nest(_, _, _)
Nest(shape, k, leaf) ==
    IF k > Len(shape) THEN leaf
    ELSE LET inner == Nest(shape, k + 1, leaf)
         IN  CASE shape[k] = "block" ->
                    Block_stmt(<<Print_stmt(lit(10 + k)), inner, Print_stmt(lit(20 + k))>>)
               [] shape[k] = "if" ->
                    If_stmt(True, inner, None)
               [] shape[k] = "else" ->
                    If_stmt(Literal_expr(Nil), Print_stmt(lit(30 + k)), inner)
               [] shape[k] = "while" ->
                    While_stmt(lit(0), Block_stmt(<<inner, Print_stmt(lit(40 + k))>>))

Kinds == {"block", "if", "else", "while"}

Shapes == UNION {[1..n -> Kinds] : n \in 1..MaxNest}

Leaf(leaf) ==
    CASE leaf = "value" -> Return_stmt(lit(7))
      [] leaf = "bare"  -> Return_stmt(None)
      [] leaf = "error" -> Print_stmt(Var_expr("undefined"))

\* fun f() { <leaf inside shape>  print 50; }  called from a block, from a
\* loop body or from another function, each with a statement after the call
ReturnProgram(shape, leaf, caller) ==
    <<Function_stmt("f", <<>>, <<Nest(shape, 1, Leaf(leaf)), Print_stmt(lit(50))>>)>>
    \o CASE caller = "block" ->
              <<Block_stmt(<<Print_stmt(call0("f")), Print_stmt(lit(60))>>)>>
         [] caller = "while" ->
              <<Var_stmt("go", True),
                While_stmt(Var_expr("go"),
                           Block_stmt(<<Print_stmt(call0("f")),
                                        Expr_stmt(Assign_expr("go", Literal_expr(Nil)))>>)),
                Print_stmt(lit(60))>>
         [] caller = "function" ->
              <<Function_stmt("g", <<>>, <<Print_stmt(call0("f")), Print_stmt(lit(60))>>),
                Expr_stmt(call0("g"))>>

\* A function that reads and writes `a`, declared at top level or inside a
\* block, and called from a block or a function that may have its own `a`
LexicalProgram(definingHas, callerHas, paramHas, defineIn, caller) ==
    LET f    == Function_stmt("f", IF paramHas THEN <<"a">> ELSE <<>>,
                              <<Print_stmt(Var_expr("a")),
                                Expr_stmt(Assign_expr("a", lit(2))),
                                Print_stmt(Var_expr("a"))>>)
        def  == IF definingHas THEN <<Var_stmt("a", lit(1))>> ELSE <<>>
        site == (IF callerHas THEN <<Var_stmt("a", lit(3))>> ELSE <<>>)
                \o <<Expr_stmt(Call_expr(Var_expr("g"),
                                         IF paramHas THEN <<lit(7)>> ELSE <<>>)),
                     Print_stmt(Var_expr("a"))>>
    IN  (IF defineIn = "global"
         THEN def \o <<f, Var_stmt("g", Var_expr("f"))>>
         ELSE <<Var_stmt("g", None),
                Block_stmt(def \o <<f, Expr_stmt(Assign_expr("g", Var_expr("f")))>>)>>)
        \o (IF caller = "block"
            THEN <<Block_stmt(site)>>
            ELSE <<Function_stmt("c", <<>>, site), Expr_stmt(call0("c"))>>)
        \o <<Print_stmt(Var_expr("a"))>>

\* Closures made in two iterations of a loop body, and by two calls of the
\* same function
ClosureProgram(kind) ==
    IF kind = "loop"
    THEN <<Var_stmt("f", None), Var_stmt("g", None), Var_stmt("s", None),
           Var_stmt("first", True), Var_stmt("go", True),
           While_stmt(Var_expr("go"), Block_stmt(<<
               Var_stmt("i", Var_expr("first")),
               Function_stmt("get", <<>>, <<Return_stmt(Var_expr("i"))>>),
               Function_stmt("set", <<"v">>, <<Expr_stmt(Assign_expr("i", Var_expr("v")))>>),
               If_stmt(Var_expr("first"),
                       Block_stmt(<<Expr_stmt(Assign_expr("f", Var_expr("get"))),
                                    Expr_stmt(Assign_expr("s", Var_expr("set"))),
                                    Expr_stmt(Assign_expr("first", Literal_expr(Nil)))>>),
                       Block_stmt(<<Expr_stmt(Assign_expr("g", Var_expr("get"))),
                                    Expr_stmt(Assign_expr("go", Literal_expr(Nil)))>>))>>)),
           Print_stmt(call0("f")), Print_stmt(call0("g")),
           Expr_stmt(Call_expr(Var_expr("s"), <<lit(5)>>)),
           Print_stmt(call0("f")), Print_stmt(call0("g"))>>
    ELSE <<Function_stmt("mk", <<"v">>, <<
               Function_stmt("get", <<"w">>, <<
                   If_stmt(Var_expr("w"), Expr_stmt(Assign_expr("v", Var_expr("w"))), None),
                   Return_stmt(Var_expr("v"))>>),
               Return_stmt(Var_expr("get"))>>),
           Var_stmt("f", Call_expr(Var_expr("mk"), <<lit(1)>>)),
           Var_stmt("g", Call_expr(Var_expr("mk"), <<lit(2)>>)),
           Print_stmt(Call_expr(Var_expr("f"), <<Literal_expr(Nil)>>)),
           Print_stmt(Call_expr(Var_expr("g"), <<Literal_expr(Nil)>>)),
           Expr_stmt(Call_expr(Var_expr("f"), <<lit(9)>>)),
           Print_stmt(Call_expr(Var_expr("f"), <<Literal_expr(Nil)>>)),
           Print_stmt(Call_expr(Var_expr("g"), <<Literal_expr(Nil)>>))>>

\* A return statement outside any function body, then two calls of a
\* two-statement function
TopReturnProgram(place, hasValue) ==
    LET ret == Return_stmt(IF hasValue THEN lit(7) ELSE None)
    IN  <<CASE place = "direct" -> ret
            [] place = "block"  -> Block_stmt(<<ret, Print_stmt(lit(90))>>)
            [] place = "if"     -> If_stmt(True, ret, None)
            [] place = "while"  -> While_stmt(True, ret),
          Function_stmt("f", <<>>, <<Print_stmt(lit(1)), Print_stmt(lit(2))>>),
          Expr_stmt(call0("f")),
          Expr_stmt(call0("f")),
          Print_stmt(lit(3))>>

\* x = <rhs>, with x declared or not
AssignProgram(defined, rhs) ==
    <<Function_stmt("f", <<>>, <<Print_stmt(lit(1)), Return_stmt(lit(2))>>)>>
    \o (IF defined THEN <<Var_stmt("x", None)>> ELSE <<>>)
    \o <<Expr_stmt(Assign_expr("x",
            CASE rhs = "call"      -> call0("f")
              [] rhs = "undefined" -> Var_expr("y")
              [] rhs = "literal"   -> lit(4))),
         Print_stmt(Var_expr("x"))>>

Params == <<"p", "q", "r", "s">>

\* f has n parameters and is called with m arguments, each argument a call
\* that prints its own position
ArityProgram(n, m) ==
    <<Function_stmt("f", SubSeq(Params, 1, n),
                    <<Print_stmt(lit(0))>> \o [i \in 1..n |-> Print_stmt(Var_expr(Params[i]))]),
      Function_stmt("g", <<"k">>, <<Print_stmt(Var_expr("k")), Return_stmt(Var_expr("k"))>>),
      Expr_stmt(Call_expr(Var_expr("f"),
                          [i \in 1..m |-> Call_expr(Var_expr("g"), <<lit(i)>>)])),
      Print_stmt(lit(5))>>

\* Calls of the native clock, and of something that is no callable
NativeProgram(kind) ==
    <<Function_stmt("g", <<>>, <<Print_stmt(lit(1)), Return_stmt(lit(1))>>)>>
    \o CASE kind = "clock"    -> <<Print_stmt(call0("clock"))>>
         [] kind = "arity"    -> <<Print_stmt(Call_expr(Var_expr("clock"), <<call0("g")>>))>>
         [] kind = "number"   -> <<Var_stmt("x", lit(1)),
                                   Print_stmt(Call_expr(Var_expr("x"), <<call0("g")>>))>>

Operands == <<Literal_expr(Nil), Literal_expr(Bool(FALSE)), True, lit(0),
              Literal_expr(Str(<<>>)), Var_expr("clock")>>

\* print l() <op> r();  where l and r print before they return their value
LogicalProgram(op, l, r) ==
    <<Function_stmt("l", <<>>, <<Print_stmt(lit(1)), Return_stmt(Operands[l])>>),
      Function_stmt("r", <<>>, <<Print_stmt(lit(2)), Return_stmt(Operands[r])>>),
      Print_stmt(Logical_expr(call0("l"), op, call0("r")))>>

\* Declarations inside a block that shadow outer ones
ScopeProgram(kind) ==
    IF kind = "var"
    THEN <<Var_stmt("a", lit(1)),
           Block_stmt(<<Var_stmt("a", lit(2)), Print_stmt(Var_expr("a"))>>),
           Print_stmt(Var_expr("a"))>>
    ELSE <<Function_stmt("f", <<>>, <<Return_stmt(lit(1))>>),
           Block_stmt(<<Function_stmt("f", <<>>, <<Return_stmt(lit(2))>>),
                        Var_stmt("b", None),
                        Function_stmt("b", <<>>, <<>>),
                        Print_stmt(call0("f"))>>),
           Print_stmt(call0("f")),
           Print_stmt(Var_expr("b"))>>

MaxFact == 5       \* largest argument of the recursive programs

\* fact(n) by recursion.  The textbook form multiplies n by the inner
\* call; the other form keeps n in a local, makes the inner call first and
\* reads the parameter and the local afterwards.
RecursionProgram(n, form) ==
    LET base  == If_stmt(Binary_expr(Var_expr("n"), "less_equal", lit(1)),
                         Return_stmt(lit(1)), None)
        inner == Call_expr(Var_expr("fact"),
                           <<Binary_expr(Var_expr("n"), "minus", lit(1))>>)
    IN  <<Function_stmt("fact", <<"n">>,
             IF form = "textbook"
             THEN <<base,
                    Return_stmt(Binary_expr(Var_expr("n"), "star", inner))>>
             ELSE <<Var_stmt("m", Var_expr("n")),
                    base,
                    Var_stmt("r", inner),
                    Print_stmt(Var_expr("m")),
                    Return_stmt(Binary_expr(Var_expr("r"), "star", Var_expr("n")))>>),
          Print_stmt(Call_expr(Var_expr("fact"), <<lit(n)>>))>>

BodyKinds == {"empty", "expr", "nested", "block", "if"}

\* print f();  where the body of f has no return statement and ends with an
\* expression that leaves a value behind: a sum, a call of g (which returns
\* 5), the same inside a block or an if.  The program may begin with a
\* return statement outside any function.
NoReturnProgram(kind, stale) ==
    LET sum  == Expr_stmt(Binary_expr(lit(1), "plus", lit(2)))
        g    == Expr_stmt(call0("g"))
        body == CASE kind = "empty"  -> <<>>
                  [] kind = "expr"   -> <<sum>>
                  [] kind = "nested" -> <<Print_stmt(lit(1)), g>>
                  [] kind = "block"  -> <<Block_stmt(<<Var_stmt("v", call0("g")), g>>)>>
                  [] kind = "if"     -> <<If_stmt(call0("g"), sum, None)>>
    IN  (IF stale THEN <<Return_stmt(lit(7))>> ELSE <<>>)
        \o <<Function_stmt("g", <<>>, <<Return_stmt(lit(5))>>),
              Function_stmt("f", <<>>, body),
              Print_stmt(call0("f")),
              Print_stmt(lit(3))>>

DefineKinds == {"var", "varinit", "fun"}

\* Two definitions of `a`, one after the other in the same frame, each
\* followed by print a: at top level (after var a = 0), in a block, or in
\* the body of f(a) or f(a, a); the outer `a` is printed at the end.
DefineProgram(one, two, where) ==
    LET def(kind, v) ==
            CASE kind = "var"     -> Var_stmt("a", None)
              [] kind = "varinit" -> Var_stmt("a", lit(v))
              [] kind = "fun"     -> Function_stmt("a", <<>>, <<Return_stmt(lit(v))>>)
        body == <<def(one, 1), Print_stmt(Var_expr("a")),
                  def(two, 2), Print_stmt(Var_expr("a"))>>
    IN  <<Var_stmt("a", lit(0))>>
        \o (CASE where = "global" -> body
               [] where = "block"  -> <<Block_stmt(body)>>
               [] where = "call"   ->
                     <<Function_stmt("f", <<"a">>, body),
                       Expr_stmt(Call_expr(Var_expr("f"), <<lit(8)>>))>>
               [] where = "call2"  ->
                     <<Function_stmt("f", <<"a", "a">>, body),
                       Expr_stmt(Call_expr(Var_expr("f"), <<lit(8), lit(9)>>))>>)
        \o <<Print_stmt(Var_expr("a"))>>

BinaryOps == {"greater", "greater_equal", "less", "less_equal", "bang_equal",
              "equal_equal", "minus", "plus", "slash", "star"}

UnaryOps == {"minus", "bang"}

\* Operands of every kind, two or more of each kind that has more than one
\* value: nil, false, true, 0, 6, 0/0, "", "a", the native clock and the
\* user function f
OpOperands ==
    <<Literal_expr(Nil), Literal_expr(Bool(FALSE)), True, lit(0), lit(6),
      Binary_expr(lit(0), "slash", lit(0)),
      Literal_expr(Str(<<>>)), Literal_expr(Str(<<"a">>)),
      Var_expr("clock"), Var_expr("f")>>

\* var x = 1; fun f() {} { var y = 2; print <expr>; print y; } print x;
OperatorFrame(expr) ==
    <<Var_stmt("x", lit(1)),
      Function_stmt("f", <<>>, <<>>),
      Block_stmt(<<Var_stmt("y", lit(2)), Print_stmt(expr), Print_stmt(Var_expr("y"))>>),
      Print_stmt(Var_expr("x"))>>

\* <expr> is (l) <op> r
BinaryProgram(op, l, r) ==
    OperatorFrame(Binary_expr(Grouping_expr(OpOperands[l]), op, OpOperands[r]))

\* <expr> is <op> (r)
UnaryProgram(op, r) ==
    OperatorFrame(Unary_expr(op, Grouping_expr(OpOperands[r])))

InitKinds == {"self", "undefined", "keeps", "raises", "call"}

\* var declarations whose initializer mentions the declared name or fails:
\*   self       var x = 1; { var x = x; print x; } print x;
\*   undefined  var x = x; print x;
\*   keeps      var x = 1; var x = y; print x;
\*   raises     var x = 1 + nil; print x;
\*   call       fun f() { print x; return 2; } var x = f(); print x;
InitializerProgram(kind) ==
    LET x == Var_expr("x")
    IN  CASE kind = "self" ->
               <<Var_stmt("x", lit(1)),
                 Block_stmt(<<Var_stmt("x", x), Print_stmt(x)>>),
                 Print_stmt(x)>>
          [] kind = "undefined" ->
               <<Var_stmt("x", x), Print_stmt(x)>>
          [] kind = "keeps" ->
               <<Var_stmt("x", lit(1)), Var_stmt("x", Var_expr("y")), Print_stmt(x)>>
          [] kind = "raises" ->
               <<Var_stmt("x", Binary_expr(lit(1), "plus", Literal_expr(Nil))),
                 Print_stmt(x)>>
          [] kind = "call" ->
               <<Function_stmt("f", <<>>, <<Print_stmt(x), Return_stmt(lit(2))>>),
                 Var_stmt("x", call0("f")),
                 Print_stmt(x)>>

LateKinds == {"var", "fun", "assign", "none"}

\* var a = 1;  then, in a block or in the body of a function h:
\*     fun f() { print a; }  f();  <late>  f();
\* where <late> is `var a = 2;`, a function declaration of a, `a = 3;` or
\* nothing; and print a; at the end
LateProgram(where, late) ==
    LET body == <<Function_stmt("f", <<>>, <<Print_stmt(Var_expr("a"))>>),
                  Expr_stmt(call0("f"))>>
                \o (CASE late = "var"    -> <<Var_stmt("a", lit(2))>>
                       [] late = "fun"    -> <<Function_stmt("a", <<>>, <<>>)>>
                       [] late = "assign" -> <<Expr_stmt(Assign_expr("a", lit(3)))>>
                       [] late = "none"   -> <<>>)
                \o <<Expr_stmt(call0("f"))>>
    IN  <<Var_stmt("a", lit(1))>>
        \o (IF where = "block"
            THEN <<Block_stmt(body)>>
            ELSE <<Function_stmt("h", <<>>, body), Expr_stmt(call0("h"))>>)
        \o <<Print_stmt(Var_expr("a"))>>

---------------------------------------------------------------------------
(* The state after Interpreter::Interpreter(), about to run program p      *)

Orders == {"value_first", "target_first"}

Start(id, p) ==
    /\ source = id
    /\ prog = p
    /\ next = 1
    /\ order \in Orders
    /\ envs = <<[values_ |-> <<[first |-> "clock", second |-> Fn(1)]>>, enclosed_ |-> 0]>>
    /\ functions = <<Clock_callable>>
    /\ environment_ = 1
    /\ globals_ = 1
    /\ result_ = Nil
    /\ returning_ = FALSE
    /\ stack = <<>>
    /\ error = NoError
    /\ out = <<>>
    /\ errs = <<>>

Init ==
    \/ \E d \in 1..MaxDepth : \E defs \in SUBSET (0..d) :
       \E use \in {"read", "assign"} : \E viaCall \in BOOLEAN :
          Start(<<"chain", d, defs, use, viaCall>>, ChainProgram(d, defs, use, viaCall))
    \/ \E shape \in Shapes : \E leaf \in {"value", "bare", "error"} :
       \E caller \in {"block", "while", "function"} :
          Start(<<"return", shape, leaf, caller>>, ReturnProgram(shape, leaf, caller))
    \/ \E definingHas \in BOOLEAN : \E callerHas \in BOOLEAN : \E paramHas \in BOOLEAN :
       \E defineIn \in {"global", "block"} : \E caller \in {"block", "function"} :
          Start(<<"lexical", definingHas, callerHas, paramHas, defineIn, caller>>,
                LexicalProgram(definingHas, callerHas, paramHas, defineIn, caller))
    \/ \E kind \in {"loop", "calls"} :
          Start(<<"closure", kind>>, ClosureProgram(kind))
    \/ \E place \in {"direct", "block", "if", "while"} : \E hasValue \in BOOLEAN :
          Start(<<"topreturn", place, hasValue>>, TopReturnProgram(place, hasValue))
    \/ \E defined \in BOOLEAN : \E rhs \in {"call", "undefined", "literal"} :
          Start(<<"assign", defined, rhs>>, AssignProgram(defined, rhs))
    \/ \E n \in 0..MaxArity : \E m \in 0..MaxArity :
          Start(<<"arity", n, m>>, ArityProgram(n, m))
    \/ \E kind \in {"clock", "arity", "number"} :
          Start(<<"native", kind>>, NativeProgram(kind))
    \/ \E op \in {"or", "and"} : \E l \in 1..Len(Operands) : \E r \in {1, 4} :
          Start(<<"logical", op, l, r>>, LogicalProgram(op, l, r))
    \/ \E kind \in {"var", "fun"} :
          Start(<<"scope", kind>>, ScopeProgram(kind))
    \/ \E op \in BinaryOps : \E l \in 1..Len(OpOperands) : \E r \in 1..Len(OpOperands) :
          Start(<<"binary", op, l, r>>, BinaryProgram(op, l, r))
    \/ \E op \in UnaryOps : \E r \in 1..Len(OpOperands) :
          Start(<<"unary", op, r>>, UnaryProgram(op, r))
    \/ \E where \in {"block", "function"} : \E late \in LateKinds :
          Start(<<"late", where, late>>, LateProgram(where, late))
    \/ \E kind \in InitKinds :
          Start(<<"initializer", kind>>, InitializerProgram(kind))
    \/ \E one \in DefineKinds : \E two \in DefineKinds :
       \E where \in {"global", "block", "call", "call2"} :
          Start(<<"define", one, two, where>>, DefineProgram(one, two, where))
    \/ \E kind \in BodyKinds : \E stale \in BOOLEAN :
          Start(<<"noreturn", kind, stale>>, NoReturnProgram(kind, stale))
    \/ \E n \in 1..MaxFact : \E form \in {"textbook", "local"} :
          Start(<<"recursion", n, form>>, RecursionProgram(n, form))

Next ==
    \/ Interpret
    \/ Catch
    \/ Unwind
    \/ VisitLiteralExpr
    \/ VisitGroupingExpr
    \/ VisitUnaryExpr
    \/ VisitBinaryExpr
    \/ VisitVarExpr
    \/ VisitAssignExpr
    \/ VisitLogicalExpr
    \/ VisitCallExpr
    \/ ClockCall
    \/ FunctionCall
    \/ VisitExprStmt
    \/ VisitIfStmt
    \/ VisitWhileStmt
    \/ VisitPrintStmt
    \/ VisitVarStmt
    \/ VisitBlockStmt
    \/ VisitFunctionStmt
    \/ VisitReturnStmt

Spec == Init /\ [][Next]_vars

\* The interpreter is one sequential program: while it has a step to take
\* it takes it
FairSpec == Spec /\ WF_vars(Next)

---------------------------------------------------------------------------
(* Properties.                                                             *)
(*                                                                         *)
(* Name resolution is stated on its own, without find_in_chain: the frames *)
(* of a chain innermost first, and the first of them that binds the name.  *)

RECURSIVE Chain(_, _)
Chain(E, e) == IF e = 0 THEN <<>> ELSE <<e>> \o Chain(E, E[e].enclosed_)

Binds(E, e, name) == \E p \in 1..Len(E[e].values_) : E[e].values_[p].first = name

\* The innermost frame of the chain from e that binds name, 0 when none does
Nearest(E, e, name) ==
    LET ch == Chain(E, e)
        holders == {k \in 1..Len(ch) : Binds(E, ch[k], name)}
    IN  IF holders = {} THEN 0
        ELSE ch[CHOOSE k \in holders : \A j \in holders : k <= j]

\* The value frame e holds for name
ValueOf(E, e, name) ==
    LET p == CHOOSE q \in 1..Len(E[e].values_) : E[e].values_[q].first = name
    IN  E[e].values_[p].second

\* From E to F nothing changed but the value frame e holds for name, which
\* is now value
OnlyBindingChanged(E, F, e, name, value) ==
    /\ Len(F) = Len(E)
    /\ \A x \in 1..Len(E) :
          /\ F[x].enclosed_ = E[x].enclosed_
          /\ Len(F[x].values_) = Len(E[x].values_)
          /\ \A p \in 1..Len(E[x].values_) :
                /\ F[x].values_[p].first = E[x].values_[p].first
                /\ F[x].values_[p].second =
                       IF x = e /\ E[x].values_[p].first = name
                       THEN value
                       ELSE E[x].values_[p].second

\* C1: a variable read and an assignment resolve the name to the binding of
\* the innermost frame of the active chain that holds it, however far out;
\* the assignment changes that binding and no other; when no frame of the
\* chain holds the name both fail with "Undefined variable '<name>'." and
\* leave every binding as it was.
C1_InnermostBindingWins ==
    [][ /\ At("Var_expr", "start") =>
              LET e == Nearest(envs, environment_, top.node.name)
              IN  /\ envs' = envs
                  /\ IF e = 0
                     THEN error' = UndefinedVariable(top.node.name)
                     ELSE /\ error' = NoError
                          /\ result_' = ValueOf(envs, e, top.node.name)
        /\ At("Assign_expr", "start") =>
              /\ envs' = envs
              /\ IF Nearest(envs, environment_, top.node.name) = 0
                 THEN error' = UndefinedVariable(top.node.name)
                 ELSE error' = NoError
        /\ At("Assign_expr", "value") =>
              LET e == Nearest(envs, environment_, top.node.name)
              IN  /\ e # 0
                  /\ error' = NoError
                  /\ result_' = result_
                  /\ OnlyBindingChanged(envs, envs', e, top.node.name, result_)
      ]_vars

\* C1 happens: three blocks deep, `a = 9` has changed the `a` of the first
\* block, two frames out, and left the global `a` alone
C1_Witness ==
    /\ Done
    /\ source[1] = "chain"
    /\ source = <<"chain", 3, {0, 1}, "assign", FALSE>>
    /\ out = <<Num(9), Num(9), Num(9), Num(0)>>

\* The environment an activation runs its children in
ActiveOf(frame) ==
    IF frame.h \in {"Block_stmt", "Function_call"} /\ frame.pc # "start"
    THEN frame.own
    ELSE frame.env0

\* C2: whenever a block or a user-function call is left, by running to its
\* end, by a return or by an error passing through, the active environment
\* is again the one that was active when it was entered; so it is for every
\* handler, and when a top-level statement has finished or raised the
\* active environment is the one it started with.
C2_EnvironmentRestored ==
    [][ Len(stack') < Len(stack) =>
            /\ Len(stack') = Len(stack) - 1
            /\ environment_' = top.env0
            /\ stack' # <<>> => environment_' = ActiveOf(stack'[Len(stack')])
      ]_vars

\* C2 happens: an error has left a call made inside nested scopes (at least
\* three environments were made after the global one) and the driver is
\* about to catch it with the global environment active again
C2_Witness ==
    /\ stack = <<>>
    /\ error # NoError
    /\ source[1] = "return"
    /\ Len(envs) >= 4
    /\ environment_ = globals_

\* What a return program has printed when the return statement runs: the
\* first print of every block around it
RECURSIVE BlockPrints(_, _)
BlockPrints(shape, k) ==
    IF k > Len(shape) THEN <<>>
    ELSE (IF shape[k] = "block" THEN <<Num(10 + k)>> ELSE <<>>)
         \o BlockPrints(shape, k + 1)

\* C3: once a return statement has run inside a call, every step up to the
\* end of that call leaves a construct (nothing is entered, printed or
\* bound, no loop condition is evaluated again); the call expression gets
\* the value of the return (nil for a bare return) and the flag is down
\* again, so the caller goes on: the return programs print the first line
\* of each enclosing block, the returned value, and the caller's next line.
C3_ReturnStopsAtCall ==
    /\ []( (Done /\ source[1] = "return" /\ source[3] # "error") =>
              /\ out = BlockPrints(source[2], 1)
                       \o <<IF source[3] = "value" THEN Num(7) ELSE Nil, Num(60)>>
              /\ errs = <<>> )
    /\ [][ LET k == NearestCall(stack, Len(stack))
           IN  /\ (Running /\ k > 0 /\ stack[k].returned) =>
                     /\ Len(stack') = Len(stack) - 1
                     /\ out' = out
                     /\ envs' = envs
                     /\ error' = NoError
               /\ (At("Function_call", "statement") /\ top.returned) =>
                     /\ returning_' = FALSE
                     /\ stack'[Len(stack')].ret = top.retval
               /\ (At("Call_expr", "call") /\ top.returned) =>
                     /\ result_' = top.retval
                     /\ returning_' = FALSE
         ]_vars

\* C3 happens: a return inside a block inside a loop of f, called from a
\* loop body; the block's first line, the value and the caller's next line
\* were printed
C3_Witness ==
    /\ Done
    /\ source[1] = "return"
    /\ source[2] = <<"while", "block">>
    /\ source[3] = "value"
    /\ source[4] = "while"
    /\ out = <<Num(12), Num(7), Num(60)>>

\* What a lexical program prints.  f prints `a`, sets it to 2 and prints it
\* again, and can only see its parameter or the `a` next to its
\* declaration; the call site and the last line print the `a` they see.
LexicalOutput(definingHas, callerHas, paramHas, defineIn) ==
    LET seen  == IF paramHas THEN 1 ELSE 2      \* the defining `a` afterwards
        inF   == IF paramHas THEN <<Num(7), Num(2)>>
                 ELSE IF definingHas THEN <<Num(1), Num(2)>>
                 ELSE <<>>
        site  == IF ~paramHas /\ ~definingHas THEN <<>>
                 ELSE IF callerHas THEN <<Num(3)>>
                 ELSE IF definingHas /\ defineIn = "global" THEN <<Num(seen)>>
                 ELSE <<>>
        last  == IF definingHas /\ defineIn = "global" THEN <<Num(seen)>> ELSE <<>>
    IN  inF \o site \o last

\* C4: the frame of a call hangs off the environment in which the function
\* declaration was executed, not off the caller's; the parameters are bound
\* in that frame and are what their names resolve to in the body; a name
\* bound only at the call site is undefined in the body, and one bound in
\* both places reads and writes the declaration's.
C4_LexicalClosure ==
    /\ []( \A j \in 1..Len(stack) :
              (stack[j].h = "Function_call" /\ stack[j].pc # "start") =>
                  Chain(envs, stack[j].own) =
                      <<stack[j].own>>
                      \o Chain(envs, functions[stack[j].callable].enclosed_) )
    /\ []( (Done /\ source[1] = "lexical") =>
              out = LexicalOutput(source[2], source[3], source[4], source[5]) )
    /\ [][ /\ At("Function_stmt", "start") =>
                 /\ Len(functions') = Len(functions) + 1
                 /\ functions'[Len(functions')].enclosed_ = top.env0
           /\ At("Function_call", "start") =>
                 LET parameters == top.node.parameters
                     fresh == Len(envs) + 1
                 IN  \A i \in 1..Len(parameters) :
                        LET last == CHOOSE j \in i..Len(parameters) :
                                       /\ parameters[j] = parameters[i]
                                       /\ \A m \in (j + 1)..Len(parameters) :
                                             parameters[m] # parameters[i]
                        IN  /\ Nearest(envs', fresh, parameters[i]) = fresh
                            /\ ValueOf(envs', fresh, parameters[i]) = top.args[last]
         ]_vars

\* C4 happens: f, declared in a block next to `a = 1` and called from a
\* function with its own `a = 3`, printed 1 and 2; the caller then printed
\* its own, untouched 3
C4_Witness ==
    /\ Done
    /\ source[1] = "lexical"
    /\ source = <<"lexical", TRUE, TRUE, FALSE, "block", "function">>
    /\ out = <<Num(1), Num(2), Num(3)>>

\* The environments callables close over
Captured == {functions[c].enclosed_ : c \in {d \in 1..Len(functions) : ~functions[d].native}}

\* C5: entering a block or a call makes an environment that did not exist
\* before and makes it the active one; environments are never removed, so
\* the one a function was declared in is still there for it after the
\* block or call is over; closures made in two iterations of a loop, or by
\* two calls of one function, read and write their own variable.
C5_FrameOfItsOwn ==
    /\ []( /\ Captured \subseteq 1..Len(envs)
           /\ \A j, k \in 1..Len(stack) :
                 (j # k /\ stack[j].own # 0) => stack[j].own # stack[k].own )
    /\ []( (Done /\ source[1] = "closure") =>
              /\ source[2] = "loop"  => out = <<Bool(TRUE), Nil, Num(5), Nil>>
              /\ source[2] = "calls" => out = <<Num(1), Num(2), Num(9), Num(2)>>
              /\ functions[ValueOf(envs, 1, "f").f].enclosed_
                     # functions[ValueOf(envs, 1, "g").f].enclosed_ )
    /\ [][ /\ Len(envs') >= Len(envs)
           /\ (At("Block_stmt", "start") \/ At("Function_call", "start")) =>
                 /\ Len(envs') = Len(envs) + 1
                 /\ Len(stack') > Len(stack) =>
                       /\ environment_' = Len(envs')
                       /\ stack'[Len(stack)].own = Len(envs')
           /\ At("Function_stmt", "start") =>
                 /\ functions'[Len(functions')].enclosed_ = top.env0
                 /\ top.env0 = environment_
         ]_vars

\* C5 happens: after the loop, the closure of the first iteration returned
\* true and that of the second nil; a write through the first one's setter
\* showed in the first and not in the second
C5_Witness ==
    /\ Done
    /\ source[1] = "closure"
    /\ source[2] = "loop"
    /\ out = <<Bool(TRUE), Nil, Num(5), Nil>>

\* C6: the is-returning flag is down whenever a user function is about to
\* run its body and whenever no top-level statement is running (it has
\* finished, or an error has ended it).
C6_ReturnFlagCleared ==
    /\ At("Function_call", "start") => ~returning_
    /\ stack = <<>> => ~returning_

\* C7: an assignment raises an error of its own (the undefined target) only
\* once its right-hand side has been evaluated.
C7_ValueBeforeTarget ==
    [][ (Running /\ top.h = "Assign_expr" /\ error' # NoError) => top.pc = "value" ]_vars

\* C8: a call raises the arity error only once every argument has been
\* evaluated.
C8_ArgumentsBeforeArity ==
    [][ (Running /\ top.h = "Call_expr" /\ error' # NoError
         /\ error'.what = ArityMismatch(0, 0).what) =>
            \/ Len(top.node.arguments) = 0
            \/ top.pc = "argument" /\ top.i = Len(top.node.arguments)
      ]_vars

Falsey(v) == v = Nil \/ v = Bool(FALSE)

\* The left value settles the expression
Settles(op, v) == (op = "or" /\ ~Falsey(v)) \/ (op = "and" /\ Falsey(v))

\* The value operand number i of the logical programs evaluates to
OperandValue(i) ==
    IF Operands[i].t = "Literal_expr" THEN Operands[i].value ELSE Fn(1)

\* C9: a logical expression evaluates its left operand, once; when `or`
\* meets a truthy left value or `and` a falsey one it ends there with the
\* left value itself and the right operand is never entered; otherwise the
\* right operand is evaluated, once, and its value is the result.
C9_ShortCircuit ==
    /\ []( (Done /\ source[1] = "logical") =>
              out = IF Settles(source[2], OperandValue(source[3]))
                    THEN <<Num(1), OperandValue(source[3])>>
                    ELSE <<Num(1), Num(2), OperandValue(source[4])>> )
    /\ [][ (Running /\ top.h = "Logical_expr") =>
              /\ top.pc \in {"start", "left", "right"}
              /\ top.pc = "start" =>
                    /\ Len(stack') = Len(stack) + 1
                    /\ stack'[Len(stack')] = Frame(top.node.left, environment_)
                    /\ stack'[Len(stack)].pc = "left"
              /\ (top.pc = "left" /\ Settles(top.node.op, result_)) =>
                    /\ Len(stack') = Len(stack) - 1
                    /\ result_' = result_
                    /\ out' = out
                    /\ envs' = envs
              /\ (top.pc = "left" /\ ~Settles(top.node.op, result_)) =>
                    /\ Len(stack') = Len(stack) + 1
                    /\ stack'[Len(stack')] = Frame(top.node.right, environment_)
                    /\ stack'[Len(stack)].pc = "right"
              /\ top.pc = "right" =>
                    /\ Len(stack') = Len(stack) - 1
                    /\ result_' = result_
         ]_vars

\* C9 happens: `l() or r()` with l returning the number 0 printed l's line
\* and then 0 itself (not true), and r's line was never printed
C9_Witness ==
    /\ Done
    /\ source[1] = "logical"
    /\ source = <<"logical", "or", 4, 1>>
    /\ out = <<Num(1), Num(0)>>

\* Every name some environment of E binds
NamesOf(E) ==
    UNION {{E[e].values_[p].first : p \in 1..Len(E[e].values_)} : e \in 1..Len(E)}

\* C10: a var or function declaration touches the active frame only (for a
\* statement of a block, the block's own frame), and there only the entry
\* of the declared name; every other frame is left as it is.  When the
\* block is left, on any path, every name resolves from the outer scope to
\* the frame it resolved to when the block was entered.
C10_DeclarationsStayInside ==
    /\ []( (Done /\ source[1] = "scope" /\ source[2] = "var") =>
              out = <<Num(2), Num(1)>> )
    /\ [][ /\ (Running /\ top.h \in {"Var_stmt", "Function_stmt"}) =>
                 /\ environment_ = top.env0
                 /\ (Len(stack) > 1 /\ stack[Len(stack) - 1].h = "Block_stmt") =>
                       environment_ = stack[Len(stack) - 1].own
                 /\ Len(envs') = Len(envs)
                 /\ \A e \in 1..Len(envs) : e # environment_ => envs'[e] = envs[e]
                 /\ envs'[environment_].enclosed_ = envs[environment_].enclosed_
                 /\ \A p \in 1..Len(envs[environment_].values_) :
                       /\ envs'[environment_].values_[p].first
                              = envs[environment_].values_[p].first
                       /\ envs[environment_].values_[p].first # top.node.name =>
                              envs'[environment_].values_[p]
                                  = envs[environment_].values_[p]
                 /\ Len(envs'[environment_].values_) >= Len(envs[environment_].values_)
                 /\ \A p \in 1..Len(envs'[environment_].values_) :
                       p > Len(envs[environment_].values_) =>
                           envs'[environment_].values_[p].first = top.node.name
           /\ (stack # <<>> /\ top.h = "Block_stmt" /\ top.pc # "start"
               /\ Len(stack') < Len(stack)) =>
                 /\ environment_' = top.env0
                 /\ \A name \in NamesOf(envs') :
                       Nearest(envs', environment_', name)
                           = Nearest(top.snap, top.env0, name)
         ]_vars

\* C10 happens: `var a = 1; { var a = 2; print a; } print a;` has printed 2
\* and then 1
C10_Witness ==
    /\ Done
    /\ source[1] = "scope"
    /\ source[2] = "var"
    /\ out = <<Num(2), Num(1)>>
    /\ ValueOf(envs, 2, "a") = Num(2)

RECURSIVE Factorial(_)
Factorial(n) == IF n <= 1 THEN 1 ELSE n * Factorial(n - 1)

\* The innermost Function::call activation below position k that runs the
\* same callable as the one at k: the activation that made the recursive call
RECURSIVE OuterActivation(_, _, _)
OuterActivation(stk, c, k) ==
    IF k = 0 THEN 0
    ELSE IF stk[k].h = "Function_call" /\ stk[k].callable = c THEN k
    ELSE OuterActivation(stk, c, k - 1)

\* C11: a function calling itself by name on a decreasing argument, with a
\* base case, comes to an end and prints the textbook result (fact(5) is
\* 120; the form with locals prints each activation's own local on the way
\* back).  Every activation has a frame of its own: when an inner recursive
\* call gives back control, the frame of the activation that made the call
\* holds what it held when the call was made, and is the active one again.
C11_RecursionTerminates ==
    /\ <>(source[1] = "recursion" => Done)
    /\ []( (Done /\ source[1] = "recursion") =>
              /\ errs = <<>>
              /\ out = (IF source[3] = "local"
                        THEN [i \in 1..(source[2] - 1) |-> Num(i + 1)]
                        ELSE <<>>)
                       \o <<Num(Factorial(source[2]))>> )
    /\ []( \A j, k \in 1..Len(stack) :
              (j < k /\ stack[j].h = "Function_call" /\ stack[k].h = "Function_call") =>
                  stack[j].own = 0 \/ stack[j].own # stack[k].own )
    /\ [][ At("Call_expr", "call") =>
              LET k == OuterActivation(stack, top.callable, Len(stack) - 1)
              IN  k > 0 =>
                    /\ envs'[stack[k].own] = top.snap[stack[k].own]
                    /\ Chain(envs', stack[k].own) = Chain(top.snap, stack[k].own)
                    /\ environment_' = top.env0
                    /\ source[1] = "recursion" => environment_' = stack[k].own
         ]_vars

\* C11 happens: fact(5) in the form with locals has printed the locals 2 to
\* 5 of the activations it came back through, then 120
C11_Witness ==
    /\ Done
    /\ source[1] = "recursion"
    /\ source = <<"recursion", 5, "local">>
    /\ out = <<Num(2), Num(3), Num(4), Num(5), Num(120)>>

\* C12: when the body of a user function has run to its end and no return
\* statement was executed in the activation, call() gives back nil,
\* whatever the body left in the result register (nested calls that
\* returned values included), and the call expression evaluates to what
\* call() gave back.
C12_NoReturnYieldsNil ==
    [][ /\ (At("Function_call", "start") /\ Len(top.node.body) = 0) =>
              stack'[Len(stack')].ret = Nil
        /\ (At("Function_call", "statement") /\ ~top.returned
            /\ top.i = Len(top.node.body)) =>
              stack'[Len(stack')].ret = Nil
        /\ At("Call_expr", "call") => result_' = top.ret
      ]_vars

\* No two entries of frame e have the same name
NoDuplicates(E, e) ==
    \A p, q \in 1..Len(E[e].values_) :
        p # q => E[e].values_[p].first # E[e].values_[q].first

\* The names of frame e in the order of its entries
Names(E, e) == [p \in 1..Len(E[e].values_) |-> E[e].values_[p].first]

\* The value a declaration stores once it stores one
Declared(frame) ==
    IF frame.h = "Function_stmt" THEN Fn(Len(functions) + 1)
    ELSE IF frame.node.initializer.t = "None" THEN Nil
    ELSE result_

\* The step of a declaration that stores the value
Stores(frame) ==
    \/ frame.h = "Function_stmt"
    \/ frame.h = "Var_stmt" /\ frame.pc \in {"value", "target"}
    \/ frame.h = "Var_stmt" /\ frame.pc = "start" /\ frame.node.initializer.t = "None"

\* C13: no frame ever holds two entries of one name.  A declaration (var,
\* function) of a name the active frame already has keeps the frame's
\* entries where they are and as many, and puts the new value in that
\* name's entry; a declaration of a name that only an outer frame has
\* appends an entry to the active frame and leaves every other frame as it
\* is.  A call binds a repeated parameter name once, to the last argument.
C13_OneEntryPerName ==
    /\ []( \A e \in 1..Len(envs) : NoDuplicates(envs, e) )
    /\ [][ /\ (Running /\ top.h \in {"Var_stmt", "Function_stmt"}) =>
                 LET name == top.node.name
                 IN  /\ \A e \in 1..Len(envs) : e # environment_ => envs'[e] = envs[e]
                     /\ Binds(envs, environment_, name) =>
                            Names(envs', environment_) = Names(envs, environment_)
                     /\ (~Binds(envs, environment_, name) /\ Len(stack') < Len(stack)) =>
                            Names(envs', environment_)
                                = Append(Names(envs, environment_), name)
                     /\ (Stores(top) /\ error' = NoError) =>
                            /\ Len(stack') < Len(stack)
                            /\ ValueOf(envs', environment_, name) = Declared(top)
           /\ At("Function_call", "start") =>
                 LET parameters == top.node.parameters
                     fresh == Len(envs) + 1
                 IN  /\ \A e \in 1..Len(envs) : envs'[e] = envs[e]
                     /\ Len(envs'[fresh].values_)
                            = Cardinality({parameters[i] : i \in 1..Len(parameters)})
                     /\ \A i \in 1..Len(parameters) :
                            (\A m \in (i + 1)..Len(parameters) :
                                 parameters[m] # parameters[i]) =>
                                ValueOf(envs', fresh, parameters[i]) = top.args[i]
         ]_vars

\* C13 happens: in the body of f(a, a), called with 8 and 9, `var a = 1;`
\* and then a function declaration of `a` have both gone to the frame's
\* only entry, and the global `a` is still 0
C13_Witness ==
    /\ Done
    /\ source[1] = "define"
    /\ source = <<"define", "varinit", "fun", "call2">>
    /\ Len(out) = 3
    /\ out[1] = Num(1)
    /\ out[2].k = "fn"
    /\ out[3] = Num(0)
    /\ Len(envs[2].values_) = 1
    /\ Len(envs[1].values_) = 3

Arithmetic == {"minus", "star", "slash"}

Comparison == {"greater", "greater_equal", "less", "less_equal"}

\* A number that is an integer
Whole(v) == v.k = "num" /\ v.d = 1

\* What an operator program prints and raises: the operator's line when it
\* yields a result (then the block's y), and x in any case
OperatorOutcome(fails, what) ==
    IF fails
    THEN /\ Len(errs) = 1
         /\ errs[1].what = what
         /\ out = <<Num(1)>>
    ELSE /\ errs = <<>>
         /\ Len(out) = 3
         /\ out[2] = Num(2)
         /\ out[3] = Num(1)

\* The kind of the value operand number i of the operator programs has
OperandKind(i) ==
    CASE i = 1 -> "nil" [] i \in {2, 3} -> "bool" [] i \in {4, 5, 6} -> "num"
      [] i \in {7, 8} -> "str" [] i \in {9, 10} -> "fn"

\* C14: `+` gives the sum of two numbers and the concatenation of two
\* strings and raises "Operands must be two numbers or two strings." for
\* every other pair of kinds; `-`, `*`, `/`, `>`, `>=`, `<`, `<=` and unary
\* `-` give a result (a number, or a boolean for the comparisons) when all
\* operands are numbers and raise "Operands must be numbers." otherwise.
\* The step that raises changes no binding and not the active environment,
\* and once the error is out the active environment is the global one and
\* the variables have the values they had.
C14_OperandKinds ==
    /\ []( (Done /\ source[1] = "binary" /\ source[2] = "plus") =>
              OperatorOutcome(~(\/ OperandKind(source[3]) = "num"
                                   /\ OperandKind(source[4]) = "num"
                                \/ OperandKind(source[3]) = "str"
                                   /\ OperandKind(source[4]) = "str"),
                              OperandsMustBeTwo.what) )
    /\ []( (Done /\ source[1] = "binary" /\ source[2] \in Arithmetic \cup Comparison) =>
              OperatorOutcome(~(OperandKind(source[3]) = "num"
                                /\ OperandKind(source[4]) = "num"),
                              OperandsMustBeNumbers.what) )
    /\ []( (Done /\ source[1] = "unary" /\ source[2] = "minus") =>
              OperatorOutcome(OperandKind(source[3]) # "num",
                              OperandsMustBeNumbers.what) )
    /\ []( (stack = <<>> /\ error # NoError /\ source[1] \in {"binary", "unary"}) =>
              /\ environment_ = globals_
              /\ ValueOf(envs, 1, "x") = Num(1)
              /\ ValueOf(envs, 2, "y") = Num(2) )
    /\ [][ /\ (At("Binary_expr", "right") /\ top.node.op = "plus") =>
                 LET lhs == top.tmp
                     rhs == result_
                 IN  IF lhs.k = "num" /\ rhs.k = "num"
                     THEN /\ error' = NoError
                          /\ result_'.k = "num"
                          /\ (Whole(lhs) /\ Whole(rhs)) => result_' = Num(lhs.n + rhs.n)
                     ELSE IF lhs.k = "str" /\ rhs.k = "str"
                     THEN /\ error' = NoError
                          /\ result_' = Str(lhs.s \o rhs.s)
                     ELSE /\ error' = OperandsMustBeTwo
                          /\ envs' = envs
                          /\ environment_' = environment_
           /\ (At("Binary_expr", "right") /\ top.node.op \in Arithmetic \cup Comparison) =>
                 LET lhs == top.tmp
                     rhs == result_
                     op  == top.node.op
                 IN  IF lhs.k = "num" /\ rhs.k = "num"
                     THEN /\ error' = NoError
                          /\ result_'.k = IF op \in Arithmetic THEN "num" ELSE "bool"
                          /\ (Whole(lhs) /\ Whole(rhs)) =>
                                CASE op = "minus"   -> result_' = Num(lhs.n - rhs.n)
                                  [] op = "star"    -> result_' = Num(lhs.n * rhs.n)
                                  [] op = "slash"   -> TRUE
                                  [] op = "greater" -> result_' = Bool(lhs.n > rhs.n)
                                  [] op = "greater_equal" -> result_' = Bool(lhs.n >= rhs.n)
                                  [] op = "less"    -> result_' = Bool(lhs.n < rhs.n)
                                  [] op = "less_equal" -> result_' = Bool(lhs.n <= rhs.n)
                     ELSE /\ error' = OperandsMustBeNumbers
                          /\ envs' = envs
                          /\ environment_' = environment_
           /\ (At("Unary_expr", "right") /\ top.node.op = "minus") =>
                 IF result_.k = "num"
                 THEN /\ error' = NoError
                      /\ result_'.k = "num"
                      /\ Whole(result_) => result_' = Num(0 - result_.n)
                 ELSE /\ error' = OperandsMustBeNumbers
                      /\ envs' = envs
                      /\ environment_' = environment_
         ]_vars

\* C14 happens: `(6) + "a"` inside the block has raised the error of `+`;
\* the block's next line was skipped and the last line printed x
C14_Witness ==
    /\ Done
    /\ source[1] = "binary"
    /\ source = <<"binary", "plus", 5, 8>>
    /\ errs = <<OperandsMustBeTwo>>
    /\ out = <<Num(1)>>

\* The value operand number i of the operator programs evaluates to (f is
\* the second callable made, after the native clock)
OpOperandValue(i) ==
    CASE i = 1 -> Nil
      [] i = 2 -> Bool(FALSE)
      [] i = 3 -> Bool(TRUE)
      [] i = 4 -> Num(0)
      [] i = 5 -> Num(6)
      [] i = 6 -> Double(0, 0)
      [] i = 7 -> Str(<<>>)
      [] i = 8 -> Str(<<"a">>)
      [] i = 9 -> Fn(1)
      [] i = 10 -> Fn(2)

\* Equality of two values of one kind as the kind has it: nil is nil,
\* booleans, strings and callable references are equal when they are the
\* same, and doubles are equal when they are the same number (NaN is no
\* number and equals nothing)
NativeEqual(lhs, rhs) ==
    IF lhs.k = "num"
    THEN lhs.n = rhs.n /\ lhs.d = rhs.d /\ ~(lhs.n = 0 /\ lhs.d = 0)
    ELSE lhs = rhs

\* What == says about lhs and rhs
Equal(lhs, rhs) == lhs.k = rhs.k /\ NativeEqual(lhs, rhs)

\* C15: `==` and `!=` never raise an error; `==` is false for two values
\* of different kinds and is the kind's own equality for two values of the
\* same kind (two callables are equal exactly when they are the same
\* callable); `!=` on the same operands is its negation.
C15_Equality ==
    /\ []( (Done /\ source[1] = "binary"
            /\ source[2] \in {"equal_equal", "bang_equal"}) =>
              /\ errs = <<>>
              /\ out = <<Bool(Equal(OpOperandValue(source[3]), OpOperandValue(source[4]))
                              = (source[2] = "equal_equal")),
                          Num(2), Num(1)>> )
    /\ [][ (At("Binary_expr", "right")
            /\ top.node.op \in {"equal_equal", "bang_equal"}) =>
              /\ error' = NoError
              /\ Len(stack') = Len(stack) - 1
              /\ result_'.k = "bool"
              /\ top.tmp.k # result_.k =>
                    result_'.b = (top.node.op = "bang_equal")
              /\ top.tmp.k = result_.k =>
                    result_'.b = (NativeEqual(top.tmp, result_)
                                    = (top.node.op = "equal_equal"))
         ]_vars

\* C15 happens: `(f) == clock` has printed false, two different callables
C15_Witness ==
    /\ Done
    /\ source[1] = "binary"
    /\ source = <<"binary", "equal_equal", 10, 9>>
    /\ out = <<Bool(FALSE), Num(2), Num(1)>>
    /\ ValueOf(envs, 1, "f") # ValueOf(envs, 1, "clock")

\* C16: a var declaration with an initializer touches no frame before the
\* initializer has been evaluated.  So `var x = x` reads the x that was
\* visible before (the outer one; an undefined-variable error when there
\* is none), a function called from the initializer does not see the new
\* x, and when the initializer raises an error the frame has no new entry
\* and an existing entry has kept its value.
C16_InitializerFirst ==
    /\ []( (Done /\ source[1] = "initializer") =>
              CASE source[2] = "self" ->
                     out = <<Num(1), Num(1)>> /\ errs = <<>>
                [] source[2] = "undefined" ->
                     out = <<>> /\ errs = <<UndefinedVariable("x"), UndefinedVariable("x")>>
                [] source[2] = "keeps" ->
                     out = <<Num(1)>> /\ errs = <<UndefinedVariable("y")>>
                [] source[2] = "raises" ->
                     out = <<>> /\ errs = <<OperandsMustBeTwo, UndefinedVariable("x")>>
                [] source[2] = "call" ->
                     out = <<>> /\ errs = <<UndefinedVariable("x"), UndefinedVariable("x")>> )
    /\ [][ (Running /\ top.h = "Var_stmt" /\ top.pc = "start"
            /\ top.node.initializer.t # "None") =>
              /\ envs' = envs
              /\ Len(stack') = Len(stack) + 1
              /\ stack'[Len(stack')].node = top.node.initializer
         ]_vars

\* Following the enclosing links from e leads to the global environment
\* without coming to an environment in seen, or to one a second time
RECURSIVE LeadsToGlobals(_, _, _)
LeadsToGlobals(E, e, seen) ==
    IF e = globals_ THEN E[e].enclosed_ = 0
    ELSE IF e = 0 \/ e \in seen \/ e > Len(E) THEN FALSE
    ELSE LeadsToGlobals(E, E[e].enclosed_, seen \cup {e})

\* C17: from every environment ever made (the active one, those of blocks
\* and calls in progress or over, those closures hold) the enclosing links
\* lead to the global environment without passing any environment twice;
\* no step removes an environment or changes the enclosing link of one
\* that exists.
C17_ChainsEndAtGlobals ==
    /\ []( /\ \A e \in 1..Len(envs) : LeadsToGlobals(envs, e, {})
           /\ environment_ \in 1..Len(envs)
           /\ \A c \in 1..Len(functions) :
                 ~functions[c].native => functions[c].enclosed_ \in 1..Len(envs) )
    /\ [][ /\ Len(envs') >= Len(envs)
           /\ \A e \in 1..Len(envs) : envs'[e].enclosed_ = envs[e].enclosed_
           /\ \A e \in (Len(envs) + 1)..Len(envs') :
                 envs'[e].enclosed_ \in 1..Len(envs)
         ]_vars

\* C17 happens: the closure program is over; a call frame of get hangs off
\* a frame of mk, which a closure still holds, which hangs off the global
\* environment
C17_Witness ==
    /\ Done
    /\ source[1] = "closure"
    /\ source[2] = "calls"
    /\ \E e \in 1..Len(envs) :
          /\ Len(Chain(envs, e)) = 3
          /\ envs[e].enclosed_ \in Captured
          /\ envs[e].enclosed_ # globals_

\* C18: a function holds the frame it was declared in, not a copy of it,
\* and a free name of its body is looked up when the body runs: in the
\* late programs every read of `a` in f gives the value of the defining
\* frame's `a` if that frame has one at the time of the call and of the
\* global `a` otherwise.  So f prints the global 1 before `var a = 2;` was
\* executed next to its declaration and the defining frame's 2 afterwards
\* (a function for a late function declaration), while the global `a`
\* still prints as 1 at the end.
C18_ResolvedAtCallTime ==
    /\ []( (Done /\ source[1] = "late") =>
              /\ errs = <<>>
              /\ Len(out) = 3
              /\ out[1] = Num(1)
              /\ CASE source[3] = "var"    -> out[2] = Num(2) /\ out[3] = Num(1)
                   [] source[3] = "fun"    -> out[2].k = "fn" /\ out[3] = Num(1)
                   [] source[3] = "assign" -> out[2] = Num(3) /\ out[3] = Num(3)
                   [] source[3] = "none"   -> out[2] = Num(1) /\ out[3] = Num(1) )
    /\ [][ /\ At("Function_stmt", "start") =>
                 /\ functions'[Len(functions')].enclosed_ = environment_
                 /\ Len(envs') = Len(envs)
           /\ (At("Var_expr", "start") /\ source[1] = "late"
               /\ NearestCall(stack, Len(stack)) > 0
               /\ stack[NearestCall(stack, Len(stack))].node.name = "f") =>
                 LET k       == NearestCall(stack, Len(stack))
                     defined == functions[stack[k].callable].enclosed_
                     holder  == IF Binds(envs, defined, "a") THEN defined ELSE globals_
                 IN  /\ error' = NoError
                     /\ result_' = ValueOf(envs, holder, "a")
                     /\ source[3] \in {"var", "fun"} =>
                           (holder = defined) = (Len(out) = 1)
         ]_vars

\* C18 happens: f, declared in a block, printed the global 1 when called
\* before `var a = 2;` and the block's 2 when called after it
C18_Witness ==
    /\ Done
    /\ source[1] = "late"
    /\ source = <<"late", "block", "var">>
    /\ out = <<Num(1), Num(2), Num(1)>>
    /\ ValueOf(envs, 1, "a") = Num(1)
    /\ ValueOf(envs, 2, "a") = Num(2)

=============================================================================
